---- MODULE Spec2Model ----
(***************************************************************************)
(* SmeeClient (src/index.ts): a Session that owns at most one EventSource  *)
(* transport and fans its events out to registered listeners.              *)
(*                                                                         *)
(* JavaScript runs every public method and every transport callback to     *)
(* completion on one thread, so each of them is one atomic action here,    *)
(* the listener fan-out it performs included.                              *)
(***************************************************************************)
EXTENDS Integers, Sequences, FiniteSets, TLC

(***************************************************************************)
(* Bounds of the model.                                                    *)
(***************************************************************************)
\* transports one Session may create in a run (start() after each stop())
MaxTransports == 2
\* size of #handlers the application builds through on(): the callbacks of
\* every kind's Set, a Set counting for one entry at least (a callback that
\* subscribes during a fan-out may take it one past this)
MaxRegs == 2
\* invocations one fan-out is followed for: a forEach that has made this many
\* and has a callback left to invoke is taken never to return
MaxCalls == 4

(***************************************************************************)
(* Program constants.                                                      *)
(***************************************************************************)
\* #es = null
Null == 0
\* EventSource.readyState values
CONNECTING == 0
OPEN == 1
CLOSED == 2

\* keyof SmeeEvents
Kinds == {"message", "ping", "open", "error", "close"}

\* the data of the kinds that carry none (ping, open, close: undefined)
Undefined == [tag |-> "undefined"]

\* an entry of a Set that was deleted while the Set is being iterated
Empty == "<empty>"

(***************************************************************************)
(* The application's callbacks.  A callback is identified by its function  *)
(* reference; what it does when invoked is fixed per reference:            *)
(*   h1       returns normally                                             *)
(*   thrower  throws                                                       *)
(*   remover  calls off(kind, h1) on the Session                           *)
(*   adder    calls on(kind, h1) on the Session                            *)
(*   starter  calls start() on the Session                                 *)
(*   readder  calls off(kind, readder), then on(kind, readder)             *)
(*   mutator  assigns null to the body of the message it is given          *)
(* remover, adder and readder stand for one closure per kind, registered   *)
(* under the kind it names.                                                *)
(***************************************************************************)
Callbacks == {"h1", "thrower", "remover", "adder", "starter", "readder", "mutator"}
Target == "h1"

\* The registrations the application makes or cancels, <<kind, callback>>: the
\* callbacks that call back into the Session listen to the lifecycle kinds.
Subscriptions ==
  (Kinds \X {"h1", "thrower"})
    \cup ({"open", "close"} \X {"remover", "adder", "starter"})
    \cup {<<"close", "readder">>, <<"message", "mutator">>}

(***************************************************************************)
(* Channel addresses given to the constructor, as sequences of characters. *)
(***************************************************************************)
RawSources == { <<"u">>, <<"u", "/">> }

\* the same, and an address that ends in two slashes
ChannelSources == RawSources \cup { <<"u", "/", "/">> }

\* a replace that removes every trailing slash
RECURSIVE StripTrailingSlash_All(_)
StripTrailingSlash_All(s) ==
  IF Len(s) > 0 /\ s[Len(s)] = "/"
  THEN StripTrailingSlash_All(SubSeq(s, 1, Len(s) - 1)) ELSE s

\* source.replace(/\/$/, '')
StripTrailingSlash(s) ==
  IF Len(s) > 0 /\ s[Len(s)] = "/" THEN SubSeq(s, 1, Len(s) - 1) ELSE s

(***************************************************************************)
(* createChannel: the base addresses it is called with and what fetch      *)
(* gives it, a rejection or a response whose location header is absent,    *)
(* empty or the address of the new channel.                                *)
(***************************************************************************)
BaseUrls == { <<"s">>, <<"s", "/">> }

Responses ==
  { [rejected |-> TRUE,  present |-> FALSE, location |-> << >>],
    [rejected |-> FALSE, present |-> FALSE, location |-> << >>],
    [rejected |-> FALSE, present |-> TRUE,  location |-> << >>],
    [rejected |-> FALSE, present |-> TRUE,  location |-> <<"s", "/", "c">>] }

\* createChannel that returns whatever headers.get gave it
createChannel_NoCheck(baseUrl, res) ==
  LET url == StripTrailingSlash(baseUrl)
      request == <<"fetch", url \o <<"/", "new">>, "HEAD", "manual">>
  IN IF res.rejected THEN <<request, <<"throw", "fetch failed">> >>
     ELSE <<request, <<"return", res.location>> >>

\* static async createChannel(baseUrl): what it asks fetch for, then what it
\* returns or throws (headers.get gives null for a header that is absent, and
\* !location holds for null and for the empty string)
createChannel(baseUrl, res) ==
  LET url == StripTrailingSlash(baseUrl)
      request == <<"fetch", url \o <<"/", "new">>, "HEAD", "manual">>
  IN IF res.rejected THEN <<request, <<"throw", "fetch failed">> >>
     ELSE IF ~res.present \/ res.location = << >>
     THEN <<request, <<"throw", "Failed to create new Smee channel">> >>
     ELSE <<request, <<"return", res.location>> >>

(***************************************************************************)
(* JSON.  A text is a sequence of tokens, a value is a tagged tuple:       *)
(*   <<"null">>  <<"bool", b>>  <<"num", n>>  <<"str", s>>                 *)
(*   <<"arr", elements>>  <<"obj", entries <<key, value>> in key order>>   *)
(* A number token <<"num", m, e>> is the literal m e e (1e1, 42).          *)
(***************************************************************************)
LBrace == <<"{">>
RBrace == <<"}">>
LBracket == <<"[">>
RBracket == <<"]">>
Colon == <<":">>
Comma == <<",">>
Ws == <<"ws">>
Str(s) == <<"str", s>>
Num(m, e) == <<"num", m, e>>
Lit(w) == <<"lit", w>>

(***************************************************************************)
(* Frames a transport delivers: the text of e.data.                        *)
(*   full     {"body":{"action":"push","n":1e1,"tags":[true,null]},        *)
(*             "query":{"param":"value"}, "timestamp":1234,                *)
(*             "x-github-event":"push", "x-number-header":42,              *)
(*             "x-object-header":{"foo":"bar"}}                            *)
(*   nullish  {"body":null,"query":null,"timestamp":null,"x-null":null}    *)
(*   strings  {"body":"text","query":"q","timestamp":"t","host":"smee.io"} *)
(*   bare     {"x-flag":false}                                             *)
(*   garbage  {"body":                                                     *)
(***************************************************************************)
Frames ==
  [ full |->
      <<LBrace, Str("body"), Colon,
          LBrace, Str("action"), Colon, Str("push"), Comma,
                  Str("n"), Colon, Num(1, 1), Comma,
                  Str("tags"), Colon, LBracket, Lit("true"), Comma, Lit("null"), RBracket,
          RBrace, Comma, Ws,
        Str("query"), Colon, LBrace, Str("param"), Colon, Str("value"), RBrace, Comma, Ws,
        Str("timestamp"), Colon, Num(1234, 0), Comma, Ws,
        Str("x-github-event"), Colon, Str("push"), Comma, Ws,
        Str("x-number-header"), Colon, Num(42, 0), Comma, Ws,
        Str("x-object-header"), Colon, LBrace, Str("foo"), Colon, Str("bar"), RBrace,
        RBrace>>,
    nullish |->
      <<LBrace, Str("body"), Colon, Lit("null"), Comma,
        Str("query"), Colon, Lit("null"), Comma,
        Str("timestamp"), Colon, Lit("null"), Comma,
        Str("x-null"), Colon, Lit("null"), RBrace>>,
    strings |->
      <<LBrace, Str("body"), Colon, Str("text"), Comma,
        Str("query"), Colon, Str("q"), Comma,
        Str("timestamp"), Colon, Str("t"), Comma,
        Str("host"), Colon, Str("smee.io"), RBrace>>,
    bare |->
      <<LBrace, Str("x-flag"), Colon, Lit("false"), RBrace>>,
    garbage |->
      <<LBrace, Str("body"), Colon>> ]

FrameNames == DOMAIN Frames

(***************************************************************************)
(* JSON.parse and JSON.stringify.                                          *)
(***************************************************************************)
JNull == <<"null">>
JUndefined == <<"undefined">>
EmptyObject == <<"obj", << >> >>

\* the token at position i of a text, <<"eof">> past its end
Tok(text, i) == IF i <= Len(text) THEN text[i] ELSE <<"eof">>

RECURSIVE SkipWs(_, _)
SkipWs(text, i) == IF Tok(text, i) = Ws THEN SkipWs(text, i + 1) ELSE i

\* obj[k] = v on the entries of an object: a key keeps its first position
Put(entries, k, v) ==
  IF \E i \in 1..Len(entries) : entries[i][1] = k
  THEN [i \in 1..Len(entries) |-> IF entries[i][1] = k THEN <<k, v>> ELSE entries[i]]
  ELSE Append(entries, <<k, v>>)

SyntaxError == [ok |-> FALSE, v |-> JNull, i |-> 0]

Parsed(v, i) == [ok |-> TRUE, v |-> v, i |-> i]

RECURSIVE ParseValue(_, _), ParseElements(_, _, _), ParseMembers(_, _, _)
ParseValue(text, i0) ==
  LET i == SkipWs(text, i0)
      t == Tok(text, i)
  IN CASE t[1] = "lit" ->
            IF t[2] = "null" THEN Parsed(JNull, i + 1)
            ELSE Parsed(<<"bool", t[2] = "true">>, i + 1)
       [] t[1] = "num" -> Parsed(<<"num", t[2] * 10 ^ t[3]>>, i + 1)
       [] t[1] = "str" -> Parsed(<<"str", t[2]>>, i + 1)
       [] t[1] = "[" ->
            IF Tok(text, SkipWs(text, i + 1)) = RBracket
            THEN Parsed(<<"arr", << >> >>, SkipWs(text, i + 1) + 1)
            ELSE ParseElements(text, i + 1, << >>)
       [] t[1] = "{" ->
            IF Tok(text, SkipWs(text, i + 1)) = RBrace
            THEN Parsed(EmptyObject, SkipWs(text, i + 1) + 1)
            ELSE ParseMembers(text, i + 1, << >>)
       [] OTHER -> SyntaxError

ParseElements(text, i, acc) ==
  LET r == ParseValue(text, i)
      j == SkipWs(text, r.i)
  IN IF ~r.ok THEN SyntaxError
     ELSE IF Tok(text, j) = Comma THEN ParseElements(text, j + 1, Append(acc, r.v))
     ELSE IF Tok(text, j) = RBracket THEN Parsed(<<"arr", Append(acc, r.v)>>, j + 1)
     ELSE SyntaxError

ParseMembers(text, i0, acc) ==
  LET i == SkipWs(text, i0)
      k == Tok(text, i)
      c == SkipWs(text, i + 1)
      r == ParseValue(text, c + 1)
      j == SkipWs(text, r.i)
  IN IF k[1] # "str" \/ Tok(text, c) # Colon THEN SyntaxError
     ELSE IF ~r.ok THEN SyntaxError
     ELSE IF Tok(text, j) = Comma THEN ParseMembers(text, j + 1, Put(acc, k[2], r.v))
     ELSE IF Tok(text, j) = RBrace THEN Parsed(<<"obj", Put(acc, k[2], r.v)>>, j + 1)
     ELSE SyntaxError

\* the parse of a whole text: a value followed by nothing but whitespace
ParseText(text) ==
  LET r == ParseValue(text, 1)
  IN IF r.ok /\ SkipWs(text, r.i) > Len(text)
     THEN [ok |-> TRUE, v |-> r.v]
     ELSE [ok |-> FALSE, v |-> JNull]

\* the parses of the frames, computed once
FrameParses == [text \in {Frames[f] : f \in FrameNames} |-> ParseText(text)]

\* JSON.parse(text): the value, or ok = FALSE where it throws a SyntaxError
JSONparse(text) ==
  IF text \in DOMAIN FrameParses THEN FrameParses[text] ELSE ParseText(text)

\* the texts of a list of values or members, with commas between them
RECURSIVE Join(_)
Join(texts) ==
  IF Len(texts) = 0 THEN << >>
  ELSE IF Len(texts) = 1 THEN texts[1]
  ELSE texts[1] \o <<Comma>> \o Join(Tail(texts))

RECURSIVE JSONstringify(_)

\* JSON.stringify that writes every array as []
JSONstringify_FlatArrays(v) ==
  CASE v[1] = "null" -> <<Lit("null")>>
    [] v[1] = "bool" -> <<Lit(IF v[2] THEN "true" ELSE "false")>>
    [] v[1] = "num"  -> <<Num(v[2], 0)>>
    [] v[1] = "str"  -> <<Str(v[2])>>
    [] v[1] = "arr"  -> <<LBracket, RBracket>>
    [] v[1] = "obj"  ->
         <<LBrace>>
           \o Join([i \in 1..Len(v[2]) |->
                      <<Str(v[2][i][1]), Colon>> \o JSONstringify(v[2][i][2])])
           \o <<RBrace>>

\* JSON.stringify(value): the compact text, numbers in plain decimal
JSONstringify(v) ==
  CASE v[1] = "null" -> <<Lit("null")>>
    [] v[1] = "bool" -> <<Lit(IF v[2] THEN "true" ELSE "false")>>
    [] v[1] = "num"  -> <<Num(v[2], 0)>>
    [] v[1] = "str"  -> <<Str(v[2])>>
    [] v[1] = "arr"  ->
         <<LBracket>>
           \o Join([i \in 1..Len(v[2]) |-> JSONstringify(v[2][i])])
           \o <<RBracket>>
    [] v[1] = "obj"  ->
         <<LBrace>>
           \o Join([i \in 1..Len(v[2]) |->
                      <<Str(v[2][i][1]), Colon>> \o JSONstringify(v[2][i][2])])
           \o <<RBrace>>

\* Date.now(): the reading of the local clock, later than every timestamp
\* a frame carries
Now == 1700

VARIABLES
  source,      \* #source: the channel address
  es,          \* #es: the transport handle, Null or the id of a transport
  transports,  \* the EventSource objects created so far, by id
  handlers,    \* #handlers: Map event -> Set of callbacks, in insertion order
  last,        \* the last operation: what it was, what it did, whether it threw
  subs         \* history: per kind, the callbacks subscribed by a call of on()
               \* and not unsubscribed by a later call of off()

vars == <<source, es, transports, handlers, last, subs>>

(***************************************************************************)
(* JavaScript's Set: insertion-ordered, no duplicates.  delete() leaves an *)
(* empty entry that a running forEach skips; add() appends.                *)
(***************************************************************************)
SetHas(S, h) == \E i \in 1..Len(S) : S[i] = h

\* add() that appends without looking for the value (an array push)
SetAdd_Append(S, h) == Append(S, h)

SetAdd(S, h) == IF SetHas(S, h) THEN S ELSE Append(S, h)

\* delete() that removes nothing
SetDelete_Noop(S, h) == S

\* delete() as splice(indexOf(h), 1): a value that is absent takes the last entry
SetDelete_Splice(S, h) ==
  [i \in 1..Len(S) |->
     IF (SetHas(S, h) /\ S[i] = h) \/ (~SetHas(S, h) /\ i = Len(S))
     THEN Empty ELSE S[i]]

SetDelete(S, h) == [i \in 1..Len(S) |-> IF S[i] = h THEN Empty ELSE S[i]]

Compact(S) == SelectSeq(S, LAMBDA x : x # Empty)

Members(S) == {S[i] : i \in 1..Len(S)} \ {Empty}

(***************************************************************************)
(* The machine state an operation works on: the Session's fields, the      *)
(* transports, and what the operation has done so far.                     *)
(***************************************************************************)
Log(m, e) == [m EXCEPT !.trace = Append(@, e)]

\* new EventSource(url)
NewEventSource(url) ==
  [url |-> url, readyState |-> CONNECTING, closeCalled |-> FALSE]

\* EventSource.close()
close(tr) ==
  [tr EXCEPT !.readyState = CLOSED, !.closeCalled = TRUE]

\* connected that looks at the handle only
connected_HandleOnly(e, trs) == e # Null

\* get connected()
connected(e, trs) == e # Null /\ trs[e].readyState = OPEN

\* on(event, handler)
on(m, event, handler) ==
  LET hs == IF event \in DOMAIN m.handlers
            THEN m.handlers
            ELSE m.handlers @@ (event :> << >>)
  IN [m EXCEPT !.handlers = [hs EXCEPT ![event] = SetAdd(@, handler)]]

\* off() that takes the callback out of the Set of every kind
off_AllKinds(m, event, handler) ==
  [m EXCEPT !.handlers = [k \in DOMAIN m.handlers |-> SetDelete(m.handlers[k], handler)]]

\* off(event, handler)
off(m, event, handler) ==
  IF event \in DOMAIN m.handlers
  THEN [m EXCEPT !.handlers[event] = SetDelete(@, handler)]
  ELSE m

\* start() without its first line
start_NoGuard(m) ==
  IF Len(m.transports) >= MaxTransports THEN [m EXCEPT !.overflow = TRUE]
  ELSE LET t == Len(m.transports) + 1
       IN Log([m EXCEPT !.es = t,
                        !.transports = Append(@, NewEventSource(m.source))],
              <<"new", t>>)

\* start()
start(m) ==
  IF m.es # Null THEN m
  ELSE IF Len(m.transports) >= MaxTransports THEN [m EXCEPT !.overflow = TRUE]
  ELSE LET t == Len(m.transports) + 1
       IN Log([m EXCEPT !.es = t,
                        !.transports = Append(@, NewEventSource(m.source))],
              <<"new", t>>)

\* the history of subscriptions after a call on(event, handler) / off(event, handler)
Subscribe(m, event, handler) == [m EXCEPT !.subs[event] = @ \cup {handler}]

Unsubscribe(m, event, handler) == [m EXCEPT !.subs[event] = @ \ {handler}]

\* one invocation h(data) of a callback during a fan-out of `event`: the
\* callback is given the object #emit was called with, as it is by then, and
\* reads client.connected
Invoke(m, event, h) ==
  LET m1 == Log(m, <<"call", event, h, m.data, connected(m.es, m.transports)>>)
  IN CASE h = "thrower" -> [m1 EXCEPT !.threw = TRUE]
       [] h = "remover" -> Log(Unsubscribe(off(m1, event, Target), event, Target),
                               <<"off", event, Target>>)
       [] h = "adder"   -> Log(Subscribe(on(m1, event, Target), event, Target),
                               <<"on", event, Target>>)
       [] h = "starter" -> start(m1)
       [] h = "readder" ->
            Log(Subscribe(on(Log(Unsubscribe(off(m1, event, h), event, h),
                                 <<"off", event, h>>),
                             event, h), event, h),
                <<"on", event, h>>)
       [] h = "mutator" -> [m1 EXCEPT !.data.body = JNull]
       [] OTHER         -> m1

\* Set.prototype.forEach over the live Set of `event`, from entry i on, after
\* n invocations; an exception thrown by a callback ends the iteration and
\* propagates
RECURSIVE forEach(_, _, _, _)
forEach(m, event, i, n) ==
  IF i > Len(m.handlers[event]) THEN m
  ELSE IF m.handlers[event][i] = Empty THEN forEach(m, event, i + 1, n)
  ELSE IF n >= MaxCalls THEN [m EXCEPT !.hung = TRUE]
  ELSE LET m1 == Invoke(m, event, m.handlers[event][i])
       IN IF m1.threw THEN m1 ELSE forEach(m1, event, i + 1, n + 1)

\* #emit(event, data)
emit(m, event, data) ==
  LET m1 == Log([m EXCEPT !.data = data], <<"pub", event, data>>)
  IN IF event \in DOMAIN m1.handlers THEN forEach(m1, event, 1, 0) ELSE m1

\* stop() that publishes close only when there was a transport to close
stop_EmitIfOpen(m) ==
  IF m.es # Null
  THEN emit([Log([m EXCEPT !.transports[m.es] = close(@)],
                 <<"close", m.es, m.transports[m.es].readyState>>)
               EXCEPT !.es = Null],
            "close", Undefined)
  ELSE m

\* stop() that closes the transport and keeps the handle
stop_KeepHandle(m) ==
  LET m1 == IF m.es # Null
            THEN Log([m EXCEPT !.transports[m.es] = close(@)],
                     <<"close", m.es, m.transports[m.es].readyState>>)
            ELSE m
  IN emit(m1, "close", Undefined)

\* stop() that forgets the listeners
stop_ClearsHandlers(m) ==
  LET m1 == IF m.es # Null
            THEN Log([m EXCEPT !.transports[m.es] = close(@)],
                     <<"close", m.es, m.transports[m.es].readyState>>)
            ELSE m
      m2 == [m1 EXCEPT !.es = Null, !.handlers = << >>]
  IN emit(m2, "close", Undefined)

\* stop() that publishes close first, then closes and releases the transport
stop_EmitFirst(m) ==
  LET m1 == emit(m, "close", Undefined)
      m2 == IF m1.es # Null
            THEN Log([m1 EXCEPT !.transports[m1.es] = close(@)],
                     <<"close", m1.es, m1.transports[m1.es].readyState>>)
            ELSE m1
  IN [m2 EXCEPT !.es = Null]

\* stop()
stop(m) ==
  LET m1 == IF m.es # Null
            THEN Log([m EXCEPT !.transports[m.es] = close(@)],
                     <<"close", m.es, m.transports[m.es].readyState>>)
            ELSE m
      m2 == [m1 EXCEPT !.es = Null]
  IN emit(m2, "close", Undefined)

(***************************************************************************)
(* The frame decoder of es.onmessage.                                      *)
(***************************************************************************)
Reserved == {"body", "query", "timestamp"}

HasKey(entries, k) == \E i \in 1..Len(entries) : entries[i][1] = k

\* raw[k]: the value of the property, undefined when raw has none
Get(entries, k) ==
  IF HasKey(entries, k)
  THEN entries[CHOOSE i \in 1..Len(entries) : entries[i][1] = k][2]
  ELSE JUndefined

\* Object.entries of a parsed frame (an object; a number or boolean has none)
OwnEntries(raw) ==
  CASE raw[1] = "obj" -> raw[2]
    [] raw[1] \in {"num", "bool"} -> << >>

\* v ?? d
Coalesce(v, d) == IF v[1] \in {"undefined", "null"} THEN d ELSE v

\* headers that keep every property of the frame that is a string
Headers_KeepReserved(entries) ==
  SelectSeq(entries, LAMBDA e : e[2][1] = "str")

\* const { body, query, timestamp, ...rest } = raw
\* for (const [k, v] of Object.entries(rest)) if (typeof v === 'string') headers[k] = v
Headers(entries) ==
  SelectSeq(entries, LAMBDA e : e[1] \notin Reserved /\ e[2][1] = "str")

\* rawBody that serializes the body the message gets
rawBody_OfDefaulted(body) == JSONstringify(Coalesce(body, EmptyObject))

\* const rawBody = body !== undefined ? JSON.stringify(body) : ''
rawBody(body) == IF body # JUndefined THEN JSONstringify(body) ELSE << >>

\* a decoder that takes the clock's reading whatever the frame says
Decode_ClockOnly(raw) ==
  LET entries == OwnEntries(raw)
  IN [tag       |-> "message",
      body      |-> Coalesce(Get(entries, "body"), EmptyObject),
      query     |-> EmptyObject,
      timestamp |-> <<"num", Now>>,
      headers   |-> Headers(entries),
      rawBody   |-> rawBody(Get(entries, "body"))]

\* the message emitted for the parsed frame raw
Decode(raw) ==
  LET entries == OwnEntries(raw)
  IN [tag       |-> "message",
      body      |-> Coalesce(Get(entries, "body"), EmptyObject),
      query     |-> Coalesce(Get(entries, "query"), EmptyObject),
      timestamp |-> Coalesce(Get(entries, "timestamp"), <<"num", Now>>),
      headers   |-> Headers(entries),
      rawBody   |-> rawBody(Get(entries, "body"))]

\* es.onopen
onopen(m) == emit(m, "open", Undefined)

\* es.onmessage that publishes a frame to the listeners twice
onmessage_Twice(m, data) ==
  LET raw == JSONparse(data)
  IN IF ~raw.ok \/ raw.v = JNull THEN [m EXCEPT !.threw = TRUE]
     ELSE LET m1 == emit(m, "message", Decode(raw.v))
          IN IF m1.threw THEN m1 ELSE emit(m1, "message", Decode(raw.v))

\* es.onmessage that catches the failure of JSON.parse and publishes it
onmessage_ReportsFailure(m, data) ==
  LET raw == JSONparse(data)
  IN IF ~raw.ok \/ raw.v = JNull
     THEN emit(m, "error",
               [tag |-> "error", message |-> "Unexpected end of JSON input",
                cause |-> [hasMessage |-> FALSE, message |-> ""]])
     ELSE emit(m, "message", Decode(raw.v))

\* es.onmessage: JSON.parse throws a SyntaxError on text that is not JSON,
\* and destructuring null throws a TypeError
onmessage(m, data) ==
  LET raw == JSONparse(data)
  IN IF ~raw.ok \/ raw.v = JNull THEN [m EXCEPT !.threw = TRUE]
     ELSE emit(m, "message", Decode(raw.v))

\* a ping listener that publishes open
onping_AsOpen(m) == emit(m, "open", Undefined)

\* the listener of the named event 'ping'
onping(m) == emit(m, "ping", Undefined)

\* es.onerror that publishes the error without its cause
onerror_NoCause(m, e) ==
  emit(m, "error",
       [tag |-> "error",
        message |-> IF e.hasMessage THEN e.message ELSE "EventSource error",
        cause |-> [hasMessage |-> FALSE, message |-> ""]])

\* es.onerror that takes e.message without looking for the field
onerror_NoFallback(m, e) ==
  emit(m, "error", [tag |-> "error", message |-> e.message, cause |-> e])

\* es.onerror that gives the transport up: it releases the handle and
\* forgets the listeners
onerror_Fatal(m, e) ==
  emit([m EXCEPT !.es = Null, !.handlers = << >>], "error",
       [tag |-> "error",
        message |-> IF e.hasMessage THEN e.message ELSE "EventSource error",
        cause |-> e])

\* es.onerror that releases the handle of a transport the failure has closed
onerror_ReleasesClosed(m, e) ==
  emit(IF m.es # Null /\ m.transports[m.es].readyState = CLOSED
       THEN [m EXCEPT !.es = Null] ELSE m,
       "error",
       [tag |-> "error",
        message |-> IF e.hasMessage THEN e.message ELSE "EventSource error",
        cause |-> e])

\* es.onerror: new Error('message' in e ? e.message : 'EventSource error', { cause: e })
onerror(m, e) ==
  emit(m, "error",
       [tag |-> "error",
        message |-> IF e.hasMessage THEN e.message ELSE "EventSource error",
        cause |-> e])

ErrorEvents ==
  { [hasMessage |-> TRUE, message |-> "Connection failed"],
    [hasMessage |-> FALSE, message |-> ""] }

(***************************************************************************)
(* Actions.                                                                *)
(***************************************************************************)
Max(a, b) == IF a >= b THEN a ELSE b

\* the entries kind k takes in #handlers: its callbacks, one for an empty Set
Weight(hs, k) == IF k \in DOMAIN hs THEN Max(1, Len(hs[k])) ELSE 0

Size(hs) ==
  Weight(hs, "message") + Weight(hs, "ping") + Weight(hs, "open")
    + Weight(hs, "error") + Weight(hs, "close")

Cur ==
  [source |-> source, es |-> es, transports |-> transports,
   handlers |-> handlers, subs |-> subs,
   data |-> Undefined,
   trace |-> << >>, threw |-> FALSE, hung |-> FALSE, overflow |-> FALSE]

Commit(op, m) ==
  /\ ~last.hung
  /\ ~m.overflow
  /\ es' = m.es
  /\ transports' = m.transports
  /\ handlers' = [k \in DOMAIN m.handlers |-> Compact(m.handlers[k])]
  /\ last' = [op |-> op, trace |-> m.trace, threw |-> m.threw, hung |-> m.hung]
  /\ subs' = m.subs
  /\ UNCHANGED source

\* new SmeeClient(raw)
Constructed(raw) ==
  /\ source = StripTrailingSlash(raw)
  /\ es = Null
  /\ transports = << >>
  /\ handlers = << >>
  /\ last = [op |-> <<"new", raw>>, trace |-> << >>, threw |-> FALSE, hung |-> FALSE]
  /\ subs = [k \in Kinds |-> {}]

Init == \E raw \in RawSources : Constructed(raw)

On(k, h) ==
  /\ <<k, h>> \in Subscriptions
  /\ Commit(<<"on", IF h \in subs[k] THEN "dup" ELSE "new">>,
            Subscribe(on(Cur, k, h), k, h))
  /\ Size(handlers') <= MaxRegs

Off(k, h) ==
  /\ <<k, h>> \in Subscriptions
  /\ Commit(<<"off", IF h \in subs[k] THEN "hit"
                     ELSE IF k \in DOMAIN handlers THEN "miss" ELSE "nokey">>,
            Unsubscribe(off(Cur, k, h), k, h))

Start ==
  /\ Commit(<<"start">>, start(Cur))

Stop ==
  /\ Commit(<<"stop">>, stop(Cur))

TransportOpen(t) ==
  /\ t \in DOMAIN transports
  /\ transports[t].readyState = CONNECTING
  /\ Commit(<<"onopen", t>>,
            onopen([Cur EXCEPT !.transports[t].readyState = OPEN]))

\* The transport was open when the stop() that has just returned closed it:
\* an event it had already received is still dispatched to its callbacks,
\* which stop() leaves wired.
InFlight(t) ==
  /\ last.op = <<"stop">>
  /\ \E i \in 1..Len(last.trace) : last.trace[i] = <<"close", t, OPEN>>

TransportMessage(t, f) ==
  /\ t \in DOMAIN transports
  /\ transports[t].readyState = OPEN \/ InFlight(t)
  /\ Commit(<<"onmessage", t, f>>, onmessage(Cur, Frames[f]))

TransportPing(t) ==
  /\ t \in DOMAIN transports
  /\ transports[t].readyState = OPEN \/ InFlight(t)
  /\ Commit(<<"onping", t>>, onping(Cur))

TransportError(t, e, rs) ==
  /\ t \in DOMAIN transports
  /\ transports[t].readyState \in {CONNECTING, OPEN}
  /\ Commit(<<"onerror", t, e>>,
            onerror([Cur EXCEPT !.transports[t].readyState = rs], e))

\* a call of the static createChannel, from the request to the settled promise
CreateChannel(baseUrl, res) ==
  /\ ~last.hung
  /\ last' = [op |-> <<"createChannel", res>>,
              trace |-> createChannel(baseUrl, res),
              threw |-> createChannel(baseUrl, res)[2][1] = "throw",
              hung |-> FALSE]
  /\ UNCHANGED <<source, es, transports, handlers, subs>>

\* the ids a transport can have
TransportIds == 1..MaxTransports

Next ==
  \/ \E k \in Kinds, h \in Callbacks : On(k, h)
  \/ \E k \in Kinds, h \in Callbacks : Off(k, h)
  \/ Start
  \/ Stop
  \/ \E t \in TransportIds : TransportOpen(t)
  \/ \E t \in TransportIds, f \in FrameNames : TransportMessage(t, f)
  \/ \E t \in TransportIds : TransportPing(t)
  \/ \E t \in TransportIds, e \in ErrorEvents, rs \in {CONNECTING, CLOSED} :
       TransportError(t, e, rs)

Spec == Init /\ [][Next]_vars

(***************************************************************************)
(* The addresses: a Session constructed from any of ChannelSources, to     *)
(* which the application does not listen, its transports, and the static   *)
(* createChannel.                                                          *)
(***************************************************************************)
ChannelInit == \E raw \in ChannelSources : Constructed(raw)

ChannelNext ==
  \/ Start
  \/ Stop
  \/ \E t \in TransportIds : TransportOpen(t)
  \/ \E t \in TransportIds, f \in FrameNames : TransportMessage(t, f)
  \/ \E t \in TransportIds : TransportPing(t)
  \/ \E t \in TransportIds, e \in ErrorEvents, rs \in {CONNECTING, CLOSED} :
       TransportError(t, e, rs)
  \/ \E baseUrl \in BaseUrls, res \in Responses : CreateChannel(baseUrl, res)

ChannelSpec == ChannelInit /\ [][ChannelNext]_vars

(***************************************************************************)
(* What the last operation did.                                            *)
(***************************************************************************)
\* the publications of an operation, in order
PubsOf(tr) == SelectSeq(tr, LAMBDA e : e[1] = "pub")

\* the callbacks an operation invoked, in order
CallsOf(tr) ==
  LET c == SelectSeq(tr, LAMBDA e : e[1] = "call")
  IN [i \in 1..Len(c) |-> c[i][3]]

\* the last operation was es.onmessage receiving a frame
Received == last.op[1] = "onmessage"

\* the frame the last operation received, parsed
Frame == JSONparse(Frames[last.op[3]])

\* the properties of that frame
FrameEntries == OwnEntries(Frame.v)

\* the last operation received a frame and published a message for it
Produced == Received /\ PubsOf(last.trace) # << >>

\* the message it published
Message == PubsOf(last.trace)[1][3]

\* the last operation was es.onerror receiving a transport error
Failed == last.op[1] = "onerror"

\* the last operation was a call of createChannel
Provisioned == last.op[1] = "createChannel"

\* the Set of kind k, empty when the Map has no such key
Listeners(hs, k) == IF k \in DOMAIN hs THEN hs[k] ELSE << >>

NoDup(S) == \A i, j \in 1..Len(S) : S[i] = S[j] => i = j

\* the transports created and not closed by the Session
Live == {t \in DOMAIN transports : ~transports[t].closeCalled}

\* whether the callback invoked at tr[i] was subscribed at that moment: by the
\* last on()/off() of it earlier in the same operation, else by the
\* subscriptions sb the operation started with
SubscribedAt(sb, tr, i) ==
  LET k == tr[i][2]
      h == tr[i][3]
      prior == {j \in 1..(i - 1) :
                  tr[j][1] \in {"on", "off"} /\ tr[j][2] = k /\ tr[j][3] = h}
  IN IF prior = {} THEN h \in sb[k]
     ELSE tr[CHOOSE j \in prior : \A j2 \in prior : j2 <= j][1] = "on"

(***************************************************************************)
(* C1: in every reachable state the Session has at most one transport that *)
(* it created and has not closed, and that one is the handle it holds.     *)
(***************************************************************************)
C1_AtMostOneLiveTransport == Cardinality(Live) <= 1 /\ Live \subseteq {es}

\* a restarted Session: the first transport closed, the second one live
C1_Witness ==
  /\ Len(transports) = 2
  /\ transports[1].closeCalled
  /\ Live = {2}

(***************************************************************************)
(* C2: start() while a transport handle exists changes nothing: no new     *)
(* transport, the same handle, the same listeners, no publication; and an  *)
(* opening transport publishes open exactly once.                          *)
(***************************************************************************)
C2_StartWithHandleIsNoOp ==
  [][ /\ (last'.op = <<"start">> /\ es # Null) =>
           /\ es' = es
           /\ transports' = transports
           /\ handlers' = handlers
           /\ subs' = subs
           /\ last'.trace = << >>
           /\ ~last'.threw
      /\ last'.op[1] = "onopen" =>
           /\ PubsOf(last'.trace) = << <<"pub", "open", Undefined>> >>
           /\ Len(transports') = Len(transports) ]_vars

\* a start() that found a handle and did nothing
C2_Witness ==
  /\ last.op = <<"start">>
  /\ es # Null
  /\ last.trace = << >>

(***************************************************************************)
(* C3: every stop() publishes close exactly once (and nothing else),       *)
(* whatever the state it is called in.                                     *)
(***************************************************************************)
C3_StopPublishesCloseOnce ==
  last.op = <<"stop">> => PubsOf(last.trace) = << <<"pub", "close", Undefined>> >>

\* a stop() of a Session that holds no transport
C3_Witness ==
  /\ last.op = <<"stop">>
  /\ \A i \in 1..Len(last.trace) : last.trace[i][1] # "close"
  /\ PubsOf(last.trace) # << >>

(***************************************************************************)
(* C4: stop() releases the handle, the start() after it creates a          *)
(* transport that did not exist before (connecting, never closed, the old  *)
(* ones untouched), and that transport's opening publishes open.           *)
(***************************************************************************)
C4_RestartOpensNewTransport ==
  [][ /\ last'.op = <<"stop">> => es' \notin DOMAIN transports
      /\ (last'.op = <<"start">> /\ es = Null) =>
           /\ es' \notin DOMAIN transports
           /\ es' \in DOMAIN transports'
           /\ transports'[es'] = NewEventSource(source)
           /\ \A t \in DOMAIN transports : transports'[t] = transports[t]
      /\ (last'.op[1] = "onopen" /\ last'.op[2] = es') =>
           <<"pub", "open", Undefined>> \in {last'.trace[i] : i \in 1..Len(last'.trace)}
    ]_vars

\* the second transport of a Session has opened and open was published
C4_Witness ==
  /\ last.op = <<"onopen", 2>>
  /\ es = 2
  /\ transports[1].closeCalled
  /\ PubsOf(last.trace) = << <<"pub", "open", Undefined>> >>

(***************************************************************************)
(* C5: connected is true exactly when the Session holds a handle whose     *)
(* status is open: false before any start(), false when start() has just   *)
(* created the transport, false after stop(), true once the held transport *)
(* has opened.                                                             *)
(***************************************************************************)
C5_ConnectedIffOpenHandle ==
  /\ connected(es, transports) <=> (es # Null /\ transports[es].readyState = OPEN)
  /\ Len(transports) = 0 => ~connected(es, transports)
  /\ (last.op = <<"start">> /\ last.trace # << >>) => ~connected(es, transports)
  /\ last.op = <<"stop">> => ~connected(es, transports)
  /\ (last.op[1] = "onopen" /\ last.op[2] = es) => connected(es, transports)

\* the held transport has opened
C5_Witness ==
  /\ last.op[1] = "onopen"
  /\ connected(es, transports)

(***************************************************************************)
(* C6: a publication invokes every callback registered for its kind        *)
(* exactly once, in registration order (stated for the publications whose  *)
(* callbacks leave the listener set of the kind as it was).                *)
(***************************************************************************)
C6_EveryListenerOnceInOrder ==
  [][ \A k \in Kinds :
        (/\ PubsOf(last'.trace) # << >>
         /\ PubsOf(last'.trace)[1][2] = k
         /\ Listeners(handlers', k) = Listeners(handlers, k))
        => CallsOf(last'.trace) = Listeners(handlers, k) ]_vars

(***************************************************************************)
(* C7: a callback that throws does not keep the callbacks registered after *)
(* it from being invoked: after a publication every callback registered    *)
(* for its kind has been invoked.                                          *)
(***************************************************************************)
C7_ThrowDoesNotStopFanOut ==
  PubsOf(last.trace) # << >> =>
    \A h \in Members(Listeners(handlers, PubsOf(last.trace)[1][2])) :
      \E i \in 1..Len(CallsOf(last.trace)) : CallsOf(last.trace)[i] = h

(***************************************************************************)
(* C8: a callback that has been unsubscribed from a kind (and not          *)
(* subscribed again) is not invoked by any publication of that kind: every *)
(* invocation is of a callback subscribed at that moment.                  *)
(***************************************************************************)
C8_UnsubscribedNeverInvoked ==
  [][ \A i \in 1..Len(last'.trace) :
        last'.trace[i][1] = "call" => SubscribedAt(subs, last'.trace, i) ]_vars

\* close published to a kind whose callbacks were subscribed and have all been
\* unsubscribed: nothing is invoked
C8_Witness ==
  /\ last.op = <<"stop">>
  /\ "close" \in DOMAIN handlers
  /\ subs["close"] = {}
  /\ PubsOf(last.trace) # << >>
  /\ CallsOf(last.trace) = << >>

(***************************************************************************)
(* C9: on() of a callback already registered under the kind leaves         *)
(* #handlers as it was, no Set ever holds a callback twice, no callback is *)
(* invoked twice by a publication during which nothing is subscribed, and  *)
(* the Set of a kind holds exactly the callbacks subscribed and not        *)
(* unsubscribed since (one off() removes a callback, however often it was  *)
(* subscribed).                                                            *)
(***************************************************************************)
C9_SubscribeIdempotent ==
  [][ /\ last'.op = <<"on", "dup">> => handlers' = handlers
      /\ \A k \in DOMAIN handlers' : NoDup(handlers'[k])
      /\ (\A i \in 1..Len(last'.trace) : last'.trace[i][1] # "on")
           => NoDup(CallsOf(last'.trace))
      /\ \A k \in Kinds : Members(Listeners(handlers', k)) = subs'[k] ]_vars

\* on() of a callback that was registered under the kind already
C9_Witness ==
  /\ last.op = <<"on", "dup">>
  /\ \E k \in DOMAIN handlers : handlers[k] # << >>

(***************************************************************************)
(* C10: off() of a callback that is not registered under the kind, the     *)
(* kind having a Set or not, throws nothing and leaves #handlers, the      *)
(* handle and the transports as they were.                                 *)
(***************************************************************************)
C10_OffUnregisteredIsNoOp ==
  [][ (last'.op[1] = "off" /\ last'.op[2] \in {"miss", "nokey"}) =>
        /\ handlers' = handlers
        /\ es' = es
        /\ transports' = transports
        /\ last'.trace = << >>
        /\ ~last'.threw ]_vars

\* off() of an unregistered callback while other callbacks are registered
C10_Witness ==
  /\ last.op = <<"off", "miss">>
  /\ \E k \in DOMAIN handlers : handlers[k] # << >>

(***************************************************************************)
(* C11, as stated: every frame a transport receives produces exactly one   *)
(* message publication.                                                    *)
(***************************************************************************)
C11_EveryFrameOnePublication ==
  Received =>
    /\ Len(PubsOf(last.trace)) = 1
    /\ PubsOf(last.trace)[1][2] = "message"

(***************************************************************************)
(* C11, amended: a frame whose text is JSON (and not null) produces        *)
(* exactly one publication, of kind message, carrying the decoding of that *)
(* very frame, inside the step that receives the frame, so publications    *)
(* follow the order of reception with nothing batched, duplicated or       *)
(* dropped; a frame whose text is not JSON produces no publication and the *)
(* handler throws.                                                         *)
(***************************************************************************)
C11_JsonFrameOnePublication ==
  Received =>
    IF Frame.ok /\ Frame.v # JNull
    THEN PubsOf(last.trace) = << <<"pub", "message", Decode(Frame.v)>> >>
    ELSE PubsOf(last.trace) = << >> /\ last.threw

\* a frame was received and its one message reached a listener
C11_Witness ==
  /\ Received
  /\ last.op[3] = "full"
  /\ Len(PubsOf(last.trace)) = 1
  /\ CallsOf(last.trace) = <<"h1">>

(***************************************************************************)
(* C12: once stop() has returned and until start() is called again (the    *)
(* Session holds no handle), no message, ping, open or error publication   *)
(* reaches a listener.                                                     *)
(***************************************************************************)
C12_NoDeliveryAfterStop ==
  (es = Null /\ last.op[1] \in {"onmessage", "onping", "onopen", "onerror"})
    => CallsOf(last.trace) = << >>

C14_RawBodyParsesToMessageBody ==
  (Produced /\ HasKey(FrameEntries, "body")) =>
    JSONparse(Message.rawBody) = [ok |-> TRUE, v |-> Message.body]

(***************************************************************************)
(* C15: when the frame has no body key, the message's body is the empty    *)
(* object and its rawBody is the empty string.                             *)
(***************************************************************************)
C15_OmittedBodyDefaults ==
  (Produced /\ ~HasKey(FrameEntries, "body")) =>
    /\ Message.body = EmptyObject
    /\ Message.rawBody = << >>

\* a message produced from a frame without body
C15_Witness ==
  /\ Produced
  /\ last.op[3] = "bare"
  /\ ~HasKey(FrameEntries, "body")

C17_QueryAndTimestampWhenPresent ==
  Produced =>
    /\ Message.query = IF HasKey(FrameEntries, "query")
                       THEN Get(FrameEntries, "query") ELSE EmptyObject
    /\ Message.timestamp = IF HasKey(FrameEntries, "timestamp")
                           THEN Get(FrameEntries, "timestamp") ELSE <<"num", Now>>

(***************************************************************************)
(* C17, amended: the message's query is the frame's query when the frame   *)
(* has one that is not null, and the empty mapping when it has none or a   *)
(* null one; its timestamp is the frame's timestamp when the frame has one *)
(* that is not null, and the clock's reading when it has none or a null    *)
(* one.                                                                    *)
(***************************************************************************)
C17_QueryAndTimestampWhenNotNull ==
  Produced =>
    /\ Message.query =
         IF HasKey(FrameEntries, "query") /\ Get(FrameEntries, "query") # JNull
         THEN Get(FrameEntries, "query") ELSE EmptyObject
    /\ Message.timestamp =
         IF HasKey(FrameEntries, "timestamp") /\ Get(FrameEntries, "timestamp") # JNull
         THEN Get(FrameEntries, "timestamp") ELSE <<"num", Now>>

\* a message produced from a frame whose query and timestamp are null
C17_Witness ==
  /\ Produced
  /\ last.op[3] = "nullish"
  /\ Get(FrameEntries, "query") = JNull
  /\ Message.query = EmptyObject
  /\ Message.timestamp = <<"num", Now>>

(***************************************************************************)
(* C18: a transport error yields exactly one publication, of kind error;   *)
(* the published error has the transport's error as its cause and, when    *)
(* that error carries a message, that text as its message.                 *)
(***************************************************************************)
C18_ErrorPublishedOnceWithCause ==
  Failed =>
    /\ Len(PubsOf(last.trace)) = 1
    /\ PubsOf(last.trace)[1][2] = "error"
    /\ PubsOf(last.trace)[1][3].cause = last.op[3]
    /\ last.op[3].hasMessage => PubsOf(last.trace)[1][3].message = last.op[3].message

\* an error with a message reached a listener
C18_Witness ==
  /\ Failed
  /\ last.op[3].hasMessage
  /\ CallsOf(last.trace) = <<"h1">>
  /\ PubsOf(last.trace)[1][3].message = "Connection failed"

(***************************************************************************)
(* C19, as stated: when the transport's error carries no message, the      *)
(* published error's message is "stream error".                            *)
(***************************************************************************)
C19_FallbackIsStreamError ==
  (Failed /\ ~last.op[3].hasMessage) =>
    PubsOf(last.trace)[1][3].message = "stream error"

(***************************************************************************)
(* C19, amended: when the transport's error carries no message, the        *)
(* published error's message is "EventSource error".                       *)
(***************************************************************************)
C19_FallbackIsEventSourceError ==
  (Failed /\ ~last.op[3].hasMessage) =>
    PubsOf(last.trace)[1][3].message = "EventSource error"

\* an error without a message was published
C19_Witness ==
  /\ Failed
  /\ ~last.op[3].hasMessage
  /\ Len(PubsOf(last.trace)) = 1

(***************************************************************************)
(* C20: a transport error leaves the listeners, the handle and the number  *)
(* of transports as they were and closes nothing; the Session then works   *)
(* as before: stop() of a Session whose transport an error has left closed *)
(* closes it, releases the handle and publishes close, the start() after   *)
(* it creates a transport that did not exist before, and that transport's  *)
(* opening publishes open.                                                 *)
(***************************************************************************)
C20_ErrorIsNotFatal ==
  [][ /\ last'.op[1] = "onerror" =>
           /\ handlers' = handlers
           /\ subs' = subs
           /\ es' = es
           /\ Len(transports') = Len(transports)
           /\ \A t \in DOMAIN transports :
                transports'[t].closeCalled = transports[t].closeCalled
      /\ (last'.op = <<"stop">> /\ es # Null /\ transports[es].readyState = CLOSED) =>
           /\ es' \notin DOMAIN transports
           /\ transports'[es].closeCalled
           /\ PubsOf(last'.trace)[1] = <<"pub", "close", Undefined>>
      /\ (last'.op = <<"start">> /\ es = Null) =>
           /\ es' = Len(transports) + 1
           /\ transports'[es'] = NewEventSource(source)
      /\ (last'.op[1] = "onopen" /\ last'.op[2] = es') =>
           PubsOf(last'.trace)[1] = <<"pub", "open", Undefined>> ]_vars

\* stop() has closed a transport that an error had left failed, released the
\* handle and told the close listener, which is still registered
C20_Witness ==
  /\ last.op = <<"stop">>
  /\ es = Null
  /\ \E i \in 1..Len(last.trace) :
       /\ last.trace[i][1] = "close"
       /\ last.trace[i][3] = CLOSED
  /\ CallsOf(last.trace) = <<"h1">>

(***************************************************************************)
(* C21: a ping event of the transport yields exactly one publication, of   *)
(* kind ping and without data.                                             *)
(***************************************************************************)
C21_PingPublishedOnce ==
  last.op[1] = "onping" => PubsOf(last.trace) = << <<"pub", "ping", Undefined>> >>

\* a ping reached a ping listener
C21_Witness ==
  /\ last.op[1] = "onping"
  /\ CallsOf(last.trace) = <<"h1">>

(***************************************************************************)
(* C22, as stated: createChannel returns the value of the location header  *)
(* when the response has one and rejects when it has none; the call leaves *)
(* the Session as it was.                                                  *)
(***************************************************************************)
C22_ReturnsLocationWhenPresent ==
  [][ last'.op[1] = "createChannel" =>
        /\ (~last'.op[2].rejected /\ last'.op[2].present)
             => last'.trace[2] = <<"return", last'.op[2].location>>
        /\ (~last'.op[2].rejected /\ ~last'.op[2].present)
             => last'.trace[2][1] = "throw" /\ last'.threw
        /\ UNCHANGED <<source, es, transports, handlers, subs>> ]_vars

(***************************************************************************)
(* C22, amended: createChannel returns the value of the location header    *)
(* when the response has one that is not empty, and rejects when the       *)
(* response has none or an empty one (and when fetch itself rejects); the  *)
(* call, failing or not, leaves the Session as it was.                     *)
(***************************************************************************)
C22_ReturnsLocationWhenNotEmpty ==
  [][ last'.op[1] = "createChannel" =>
        /\ (~last'.op[2].rejected /\ last'.op[2].present /\ last'.op[2].location # << >>)
             => last'.trace[2] = <<"return", last'.op[2].location>> /\ ~last'.threw
        /\ (last'.op[2].rejected \/ ~last'.op[2].present \/ last'.op[2].location = << >>)
             => last'.trace[2][1] = "throw" /\ last'.threw
        /\ UNCHANGED <<source, es, transports, handlers, subs>> ]_vars

\* a call that failed on a response whose location header is empty, while a
\* Session holds an open transport
C22_Witness ==
  /\ Provisioned
  /\ ~last.op[2].rejected
  /\ last.op[2].present
  /\ last.op[2].location = << >>
  /\ last.threw
  /\ connected(es, transports)

(***************************************************************************)
(* C23: a frame whose text is not JSON produces no publication: the        *)
(* handler throws, and the handle, the transports and the listeners are    *)
(* left as they were.                                                      *)
(***************************************************************************)
C23_MalformedFrameThrows ==
  [][ (last'.op[1] = "onmessage" /\ ~JSONparse(Frames[last'.op[3]]).ok) =>
        /\ last'.trace = << >>
        /\ last'.threw
        /\ es' = es
        /\ transports' = transports
        /\ handlers' = handlers
        /\ subs' = subs ]_vars

\* a malformed frame arrived at a Session that has a message listener
C23_Witness ==
  /\ Received
  /\ ~Frame.ok
  /\ last.threw
  /\ connected(es, transports)
  /\ subs["message"] # {}

(***************************************************************************)
(* C24: a frame that cannot be parsed results in a publication of kind     *)
(* error.                                                                  *)
(***************************************************************************)
C24_ParseFailurePublishesError ==
  (Received /\ ~Frame.ok) =>
    \E i \in 1..Len(PubsOf(last.trace)) : PubsOf(last.trace)[i][2] = "error"

(***************************************************************************)
(* C25: start() and stop() leave the listeners as they were (unless a      *)
(* close listener itself calls on() or off()), so a transport's event is   *)
(* handed to the listeners registered before, whichever transport of the   *)
(* Session it comes from; on() and off() leave the handle and the          *)
(* transports as they were.                                                *)
(***************************************************************************)
C25_FrameEffects ==
  [][ /\ (/\ last'.op[1] \in {"start", "stop"}
          /\ \A i \in 1..Len(last'.trace) : last'.trace[i][1] \notin {"on", "off"})
           => handlers' = handlers /\ subs' = subs
      /\ last'.op[1] \in {"on", "off"} => es' = es /\ transports' = transports
      /\ \A k \in Kinds :
           (/\ last'.op[1] \in {"onopen", "onmessage", "onping", "onerror"}
            /\ PubsOf(last'.trace) # << >>
            /\ PubsOf(last'.trace)[1][2] = k
            /\ Listeners(handlers, k) # << >>)
           => /\ CallsOf(last'.trace) # << >>
              /\ CallsOf(last'.trace)[1] = Listeners(handlers, k)[1] ]_vars

\* the second transport of the Session has opened and the open listener,
\* registered before the first was stopped, was invoked
C25_Witness ==
  /\ last.op = <<"onopen", 2>>
  /\ transports[1].closeCalled
  /\ CallsOf(last.trace) = <<"h1">>

(***************************************************************************)
(* C26: every publication returns after finitely many invocations: no      *)
(* stop() and no transport callback is left running for ever, whatever the *)
(* listeners do, calls of on() and off() on the kind being published       *)
(* included.                                                               *)
(***************************************************************************)
C26_EveryPublishReturns == ~last.hung

(***************************************************************************)
(* C27: within one fan-out every listener is given the value as it was     *)
(* published, whatever the listeners invoked before it did with it.        *)
(***************************************************************************)
C27_ListenersSeePublishedValue ==
  \A i \in 1..Len(last.trace) :
    last.trace[i][1] = "call" => last.trace[i][4] = PubsOf(last.trace)[1][3]

(***************************************************************************)
(* C28: a publication invokes callbacks under its own kind only, and       *)
(* changes the listeners of no other kind; on() and off() change the       *)
(* listeners of one kind at most, also when the callback is registered     *)
(* under several kinds.                                                    *)
(***************************************************************************)
C28_KindsAreIsolated ==
  [][ /\ \A i \in 1..Len(last'.trace) :
           last'.trace[i][1] = "call" =>
             /\ last'.trace[i][2] = PubsOf(last'.trace)[1][2]
             /\ SubscribedAt(subs, last'.trace, i)
      /\ PubsOf(last'.trace) # << >> =>
           \A k \in Kinds \ {PubsOf(last'.trace)[1][2]} :
             Listeners(handlers', k) = Listeners(handlers, k) /\ subs'[k] = subs[k]
      /\ last'.op[1] \in {"on", "off"} =>
           Cardinality({k \in Kinds : Listeners(handlers', k) # Listeners(handlers, k)}) <= 1
    ]_vars

\* off() has removed h1 from one kind while h1 stays registered under another
C28_Witness ==
  /\ last.op = <<"off", "hit">>
  /\ \E k1, k2 \in Kinds :
       /\ k1 # k2
       /\ k1 \in DOMAIN handlers
       /\ handlers[k1] = << >>
       /\ Listeners(handlers, k2) = <<"h1">>

(***************************************************************************)
(* C29: the channel address is the string given to the constructor without *)
(* its last character when that is a slash, the string itself otherwise;   *)
(* it never changes, and every transport the Session creates, restarts     *)
(* included, is opened on it.                                              *)
(***************************************************************************)
C29_AddressFixedAtConstruction ==
  /\ [](/\ last.op[1] = "new" =>
             IF last.op[2][Len(last.op[2])] = "/"
             THEN source \o <<"/">> = last.op[2]
             ELSE source = last.op[2]
        /\ \A t \in DOMAIN transports : transports[t].url = source)
  /\ [][source' = source]_vars

\* a Session constructed from an address ending in two slashes has been
\* restarted: both transports were opened on the address ending in one
C29_Witness ==
  /\ Len(transports) = 2
  /\ source = <<"u", "/">>
  /\ \A t \in DOMAIN transports : transports[t].url = <<"u", "/">>

(***************************************************************************)
(* C30: a publication made by a transport callback comes from the          *)
(* transport the Session holds, never from one the Session has closed.     *)
(***************************************************************************)
C30_PublicationsFromHeldTransport ==
  (last.op[1] \in {"onopen", "onmessage", "onping", "onerror"} /\ PubsOf(last.trace) # << >>)
    => last.op[2] = es

(***************************************************************************)
(* C31: a fan-out reads the live listener set. In every publication whose  *)
(* fan-out is followed to its end, a callback unsubscribed by a callback   *)
(* of the publication is not invoked afterwards in it unless it has been   *)
(* subscribed again, and a callback that was not subscribed to the kind    *)
(* and is subscribed to it by a callback of the publication, and not      *)
(* unsubscribed again in it, is invoked later in that same publication.    *)
(***************************************************************************)
C31_FanOutReadsLiveSet ==
  [][ ~last'.hung =>
        \A j \in 1..Len(last'.trace) :
          LET tr == last'.trace
              k == tr[j][2]
              h == tr[j][3]
              later(tag) == {i \in (j + 1)..Len(tr) :
                              tr[i][1] = tag /\ tr[i][2] = k /\ tr[i][3] = h}
          IN /\ tr[j][1] = "off" =>
                  \A i \in later("call") : \E o \in later("on") : o < i
             /\ (/\ tr[j][1] = "on"
                 /\ ~SubscribedAt(subs, tr, j)
                 /\ later("off") = {}) =>
                  later("call") # {} ]_vars

(***************************************************************************)
(* C32: stop() closes the transport and releases the handle before it      *)
(* publishes close: in the record of a stop() the closing of the transport *)
(* precedes the publication, every close listener reads connected = false, *)
(* and a transport that start(), called by a close listener, has created   *)
(* is the one the Session holds after stop() has returned, not closed; a   *)
(* stop() during which none was created leaves the Session without one.    *)
(***************************************************************************)
C32_ClosedBeforeClosePublished ==
  last.op = <<"stop">> =>
    LET tr == last.trace
        created == {tr[i][2] : i \in {j \in 1..Len(tr) : tr[j][1] = "new"}}
    IN /\ \A i, j \in 1..Len(tr) :
            (tr[i][1] = "close" /\ tr[j][1] = "pub") => i < j
       /\ \A i \in 1..Len(tr) : tr[i][1] = "call" => tr[i][5] = FALSE
       /\ \A t \in created : es = t /\ ~transports[t].closeCalled
       /\ created = {} => es = Null

\* stop() of a Session whose transport was open: a close listener has called
\* start(), a listener invoked after it has read connected = false, and the
\* Session holds the new transport
C32_Witness ==
  /\ last.op = <<"stop">>
  /\ ~last.threw
  /\ \E c, p, n, i \in 1..Len(last.trace) :
       /\ c < p /\ p < n /\ n < i
       /\ last.trace[c][1] = "close" /\ last.trace[c][3] = OPEN
       /\ last.trace[p][1] = "pub"
       /\ last.trace[n][1] = "new" /\ es = last.trace[n][2]
       /\ last.trace[i][1] = "call" /\ last.trace[i][5] = FALSE
  /\ es # Null
  /\ transports[es].readyState = CONNECTING

(***************************************************************************)
(* C33: a transport error never releases the handle. The error callback    *)
(* runs for the transport the Session holds and leaves the Session holding *)
(* it, also when the failure has closed the transport and connected is     *)
(* false; start() of a Session that holds a transport, one closed by a     *)
(* failure included, creates nothing and changes nothing.                  *)
(***************************************************************************)
C33_ErrorKeepsHandle ==
  [][ /\ last'.op[1] = "onerror" =>
           /\ es # Null
           /\ last'.op[2] = es
           /\ es' = es
           /\ transports'[es'].readyState = CLOSED =>
                 ~connected(es', transports') /\ ~transports'[es'].closeCalled
      /\ (last'.op = <<"start">> /\ es # Null) =>
           /\ es' = es
           /\ transports' = transports
           /\ handlers' = handlers
           /\ last'.trace = << >> ]_vars

\* start() has returned without effect on a Session that holds a transport a
\* failure has closed (closed, and not by stop()): connected is false
C33_Witness ==
  /\ last.op = <<"start">>
  /\ last.trace = << >>
  /\ es # Null
  /\ transports[es].readyState = CLOSED
  /\ ~transports[es].closeCalled
  /\ ~connected(es, transports)

====
